---- MODULE Spec2Model ----
(***************************************************************************)
(* The component registry of njses (src/src/main/registery.ts) with the    *)
(* descriptor store it reads (src/src/main/shadow.ts).                     *)
(*                                                                         *)
(* JavaScript runs one synchronous segment at a time: an action of this    *)
(* module is one such segment, from the call (or the resumption after an   *)
(* await) to the next await or return.  Promises are state: the promise    *)
(* returned by Registery._init(instance) is the field "promise" of that    *)
(* instance, the promise returned by a Registery.mount call is a call      *)
(* record.                                                                 *)
(***************************************************************************)
EXTENDS Integers, Sequences, FiniteSets, TLC

\* Bounds of the model.
\* The choices of the environment in one run: the inject() and destroyService()
\* calls of the application and the lifecycle-method calls that throw or
\* return a promise instead of returning normally.
MaxOps == 3

(***************************************************************************)
(* JavaScript values that are passed as arguments: strings, arrays and     *)
(* plain objects (a sequence of [key, value] entries in insertion order).  *)
(***************************************************************************)
Str(x) == [t |-> "str", s |-> x, v |-> <<>>]
Arr(xs) == [t |-> "arr", s |-> "", v |-> xs]
Obj(entries) == [t |-> "obj", s |-> "", v |-> entries]
Entry(k, x) == Arr(<<Str(k), x>>)

\* The keys of the objects used as constructor parameters, in sorted order.
KeyOrder == <<"a", "b">>

\* stable-hash: an object is hashed with its keys sorted, so the insertion
\* order of the keys does not affect the hash; arrays keep their order.
RECURSIVE hash(_)
hash(x) ==
    IF x.t = "str" THEN x
    ELSE IF x.t = "arr" THEN Arr([j \in DOMAIN x.v |-> hash(x.v[j])])
    ELSE LET present == SelectSeq(KeyOrder,
                          LAMBDA k : \E j \in DOMAIN x.v : x.v[j].v[1].s = k)
             valueOf(k) == x.v[CHOOSE j \in DOMAIN x.v :
                                 /\ x.v[j].v[1].s = k
                                 /\ \A j2 \in DOMAIN x.v :
                                        x.v[j2].v[1].s = k => j2 <= j].v[2]
         IN Obj([j \in DOMAIN present |-> Entry(present[j], hash(valueOf(present[j])))])

\* Constructor parameter tuples the application uses.  The first two are
\* deep-equal objects whose keys were inserted in a different order.
ParamsAB == <<Obj(<<Entry("a", Str("1")), Entry("b", Str("2"))>>)>>
ParamsBA == <<Obj(<<Entry("b", Str("2")), Entry("a", Str("1"))>>)>>
ParamsOther == <<Obj(<<Entry("a", Str("2"))>>)>>
NoParams == <<>>

(***************************************************************************)
(* The component classes of the application and their descriptors.        *)
(* "A2" and "B2" are re-declarations of "A" and "B": new constructors of    *)
(* the same class names, registered under the same declared names when the *)
(* modules of the application are reloaded (hot reloading).  "C" and "P"    *)
(* are services with a computed dependency field, "E" is an entity, "G" is  *)
(* a service whose dependency field is a collection, "X" is a service of   *)
(* another class that is declared under the name "A", "H" is a service     *)
(* with hooks of every stage and neither side effects nor dependencies.    *)
(***************************************************************************)
Classes == {"A", "A2", "B", "B2", "C", "P", "E", "G", "X", "H"}
Reloaded == {"A2", "B2"}

\* Function.name of a constructor.
CtrName(c) ==
    IF c \in {"B", "B2"} THEN "B" ELSE IF c \in {"A", "A2"} THEN "A" ELSE c

\* An Injectable (registery.ts 26-33) naming one service:
\*   static   - the constructor, or [constructor, ...params]
\*   computed - an arrow function (dependant) => [constructor, ...params];
\*              dep and params are what the function returns when called,
\*              props the own properties the function object carries (when
\*              it carries "dep" and "params": the same constructor and a
\*              function returning the same parameters).
Static(field, dep, params) ==
    [field |-> field, kind |-> "static", dep |-> dep, params |-> params, props |-> {}]
Computed(field, dep, params, props) ==
    [field |-> field, kind |-> "computed", dep |-> dep, params |-> params, props |-> props]

\* A ServiceCollection (registery.ts 35-40): an object whose keys name one
\* Injectable each, in the order for..in enumerates them.
Item(key, dep, params) == [key |-> key, kind |-> "static", dep |-> dep, params |-> params,
                           props |-> {}]
Collection(field, items) ==
    [field |-> field, kind |-> "collection", dep |-> "", params |-> <<>>, props |-> {},
     items |-> items]

\* The Shadow built for a class: init (name, dynamic), _roles, _sideEffects,
\* _injections and _methods, the latter per FIELD_NAME in declaration order.
ShadowOf(c) ==
    IF c \in {"B", "B2"}
    THEN [name |-> "B", dynamic |-> FALSE, roles |-> {"dep"},
          sideEffects |-> <<>>, injections |-> <<>>,
          methods |-> [configure |-> <<>>, init |-> <<"start">>,
                       mount |-> <<>>, destroy |-> <<>>]]
    ELSE IF c \in {"A", "A2"}
    THEN [name |-> "A", dynamic |-> FALSE, roles |-> {"app"},
          sideEffects |-> <<IF c = "A" THEN "B" ELSE "B2">>,
          injections |-> <<Static("b", IF c = "A" THEN "B" ELSE "B2", <<>>)>>,
          methods |-> [configure |-> <<"setup">>, init |-> <<"open", "load">>,
                       mount |-> <<"ready">>, destroy |-> <<"close">>]]
    ELSE IF c \in {"C", "P"}
    THEN [name |-> c, dynamic |-> FALSE, roles |-> {},
          sideEffects |-> <<>>,
          injections |-> <<Computed("b", "B", <<>>,
                                    IF c = "P" THEN {"dep", "params"} ELSE {})>>,
          methods |-> [configure |-> <<>>, init |-> <<"begin">>,
                       mount |-> <<>>, destroy |-> <<>>]]
    ELSE IF c = "X"
    THEN [name |-> "A", dynamic |-> FALSE, roles |-> {},
          sideEffects |-> <<>>, injections |-> <<>>,
          methods |-> [configure |-> <<>>, init |-> <<"begin">>,
                       mount |-> <<>>, destroy |-> <<"close">>]]
    ELSE IF c = "H"
    THEN [name |-> "H", dynamic |-> FALSE, roles |-> {},
          sideEffects |-> <<>>, injections |-> <<>>,
          methods |-> [configure |-> <<"setup">>, init |-> <<"begin">>,
                       mount |-> <<"ready">>, destroy |-> <<>>]]
    ELSE IF c = "G"
    THEN [name |-> "G", dynamic |-> FALSE, roles |-> {},
          sideEffects |-> <<>>,
          injections |-> <<Collection("deps", <<Item("x", "B", NoParams),
                                                Item("y", "B", ParamsAB)>>)>>,
          methods |-> [configure |-> <<>>, init |-> <<"begin">>,
                       mount |-> <<>>, destroy |-> <<>>]]
    ELSE [name |-> "E", dynamic |-> TRUE, roles |-> {"item"},
          sideEffects |-> <<>>, injections |-> <<>>,
          methods |-> [configure |-> <<>>, init |-> <<"begin">>,
                       mount |-> <<"ready">>, destroy |-> <<>>]]

\* The methods a class defines (typeof instance[name] === "function").
MethodsOf(c) ==
    LET m == ShadowOf(c).methods
        range(q) == {q[j] : j \in DOMAIN q}
    IN range(m.configure) \cup range(m.init) \cup range(m.mount) \cup range(m.destroy)

\* What a lifecycle method does when it is called: it returns, it throws, or
\* it returns a promise that settles later.
Modes == {"sync", "throw", "async"}

\* The behaviour of the methods called by one invokeAll, by position.
Oracles == [1..2 -> Modes]

\* The oracles in which at most n methods throw or return a promise.
OraclesWithin(n) ==
    {o \in Oracles : Cardinality({k \in DOMAIN o : o[k] # "sync"}) <= n}

\* Errors: the chain of NJSESError frames from the outermost to the cause.
NoErr == <<>>
NJSESError(message, cause, tags) == <<[msg |-> message, tags |-> tags]>> \o cause
HookError == <<[msg |-> "thrown by the component", tags |-> <<>>]>>
ShadowNotFound == NJSESError("Shadow not found", NoErr, <<>>)
\* The TypeError of a call of a property that is not a function.
NotAFunction == <<[msg |-> "is not a function", tags |-> <<>>]>>

VARIABLES
    shadows,       \* the Shadow stored on each constructor that carries one
    trace,         \* what the declaring and emitting code of the application observed
    ctrShadow,     \* the constructors that carry the $hadow property (Shadow.create)
    protoShadow,   \* the classes whose instances resolve the $hadow property
    cache,         \* Registery._serviceInstances: <<name, paramsHash>> -> {instance, mount}
    roles,         \* Registery._roles: role -> set of constructors
    insts,         \* every instance constructed so far, with the state of its _init
    calls,         \* the inject() calls of the application and their promises
    destroys,      \* the number of destroyService() calls of the application
    lastDestroyed, \* the instance destroyed by the step just taken, if it was such a call
    faults         \* the lifecycle-method calls that threw or returned a promise

vars == <<shadows, trace, ctrShadow, protoShadow, cache, roles, insts, calls, destroys, lastDestroyed, faults>>

\* The variables of the registry and of the application calling it.
Registry == <<ctrShadow, protoShadow, cache, roles, insts, calls, destroys,
              lastDestroyed, faults>>

\* A promise returned by Registery.mount (or awaited by _init):
\*   none   - no promise (_init awaits nothing)
\*   tick   - an await of a value that is no promise: resumes on the next microtask
\*   value  - resolved with instance inst
\*   throw  - rejected with err
\*   join   - resolved to the promise of _init(inst): settles as that one does
\*   destroying - the mount is suspended at "await this.destroyService(...)"
\*   computing  - injectX is suspended at "await injectable.params(dependant)"
NoCall == [k |-> "none", src |-> "", params |-> <<>>, inst |-> 0, err |-> NoErr,
           reg |-> [instance |-> 0, mount |-> 0], via |-> ""]
Tick == [NoCall EXCEPT !.k = "tick"]
Value(i, via) == [NoCall EXCEPT !.k = "value", !.inst = i, !.via = via]
Throw(e, via) == [NoCall EXCEPT !.k = "throw", !.err = e, !.via = via]
Join(i, via) == [NoCall EXCEPT !.k = "join", !.inst = i, !.via = via]
Computing(src, params) ==
    [NoCall EXCEPT !.k = "computing", !.src = src, !.params = params, !.via = "computed"]
Destroying(src, params, reg, e) ==
    [NoCall EXCEPT !.k = "destroying", !.src = src, !.params = params,
                   !.reg = reg, !.err = e, !.via = "remount"]

\* F applied to v, with v evaluated once before F uses it.
With(v, F(_)) == CHOOSE y \in {F(x) : x \in {v}} : TRUE

(***************************************************************************)
(* Shadow (src/src/main/shadow.ts)                                         *)
(***************************************************************************)
\* Shadow.get(source) reads source[SHADOW_SYMBOL].  Shadow.create stores the
\* descriptor on the constructor; an instance finds the property only through
\* its own prototype chain, which does not include the constructor.
ShadowGet(kind, c) ==
    IF kind = "ctr" THEN c \in ctrShadow
    ELSE c \in protoShadow /\ c \in ctrShadow

\* Shadow.require(source): the descriptor, or "Shadow not found".
ShadowRequire(kind, c) ==
    IF ShadowGet(kind, c) THEN [ok |-> TRUE, shadow |-> ShadowOf(c)]
    ELSE [ok |-> FALSE, shadow |-> ShadowOf(c)]

\* Shadow.getMethods(type): the methods added for a FIELD_NAME, in the order
\* of insertion into the Set.
getMethods(shadow, type) == shadow.methods[type]

\* The event types of the application.
Events == {"changed"}

\* new Shadow(ctr, init) for a class that extends no declared class: name and
\* isEntity from init, every fact empty.  A Set is a sequence without
\* repetitions, in the order of insertion; _listeners[event] is a Set.
NewShadow(init) ==
    [name |-> init.name, dynamic |-> init.dynamic, roles |-> {},
     sideEffects |-> <<>>, injections |-> <<>>,
     methods |-> [configure |-> <<>>, init |-> <<>>, mount |-> <<>>, destroy |-> <<>>],
     listeners |-> [e \in Events |-> <<>>]]

\* The Shadow of a class of the application once its decorators have run.
Described(c) == [NewShadow(ShadowOf(c)) EXCEPT !.roles = ShadowOf(c).roles,
                                              !.sideEffects = ShadowOf(c).sideEffects,
                                              !.injections = ShadowOf(c).injections,
                                              !.methods = ShadowOf(c).methods]

\* Set.add(x).
SetAdd(set, x) == IF \E n \in DOMAIN set : set[n] = x THEN set ELSE Append(set, x)

\* Shadow.create(source, init): a new Shadow is stored on the constructor,
\* whatever was stored there.
create(sh, c, init) == [x \in DOMAIN sh \cup {c} |-> IF x = c THEN NewShadow(init) ELSE sh[x]]

\* Shadow.addRoles, Shadow.addMethod and Shadow.on.
addRoles(shadow, rs) == [shadow EXCEPT !.roles = @ \cup rs]
addMethod(shadow, type, method) == [shadow EXCEPT !.methods[type] = SetAdd(@, method)]
on(shadow, event, listener) == [shadow EXCEPT !.listeners[event] = SetAdd(@, listener)]

\* The listeners of the application and what each does when it is called:
\* "adder" registers the listener "late" for the same event on the same
\* Shadow, "thrower" throws, "plain" and "late" return.
Handlers == {"adder", "thrower", "plain", "late"}
Does(listener) ==
    IF listener = "adder" THEN "add" ELSE IF listener = "thrower" THEN "throw" ELSE "return"

RECURSIVE emitFromLive(_, _, _, _, _)
\* The loop of emit over the Set itself: a listener added while the loop runs
\* is visited by it.
emitFromLive(sh, c, event, listeners, k) ==
    IF k > Len(sh[c].listeners[event]) THEN [sh |-> sh, invoked |-> <<>>, threw |-> FALSE]
    ELSE LET listener == sh[c].listeners[event][k]
         IN IF Does(listener) = "throw"
            THEN [sh |-> sh, invoked |-> <<listener>>, threw |-> TRUE]
            ELSE With(emitFromLive(IF Does(listener) = "add"
                                   THEN [sh EXCEPT ![c] = on(@, event, "late")] ELSE sh,
                                   c, event, listeners, k + 1),
                      LAMBDA r : [r EXCEPT !.invoked = <<listener>> \o @])

RECURSIVE emitFrom(_, _, _, _, _)
\* Shadow.emit, "for (const listener of Array.from(listeners)) listener(...args)"
\* from the k-th element of the array: the listeners called, in order, the
\* Shadows as the listeners left them, and whether a listener threw (the
\* exception leaves the loop and emit).
emitFrom(sh, c, event, listeners, k) ==
    IF k > Len(listeners) THEN [sh |-> sh, invoked |-> <<>>, threw |-> FALSE]
    ELSE LET listener == listeners[k]
         IN IF Does(listener) = "throw"
            THEN [sh |-> sh, invoked |-> <<listener>>, threw |-> TRUE]
            ELSE With(emitFrom(IF Does(listener) = "add"
                               THEN [sh EXCEPT ![c] = on(@, event, "late")] ELSE sh,
                               c, event, listeners, k + 1),
                      LAMBDA r : [r EXCEPT !.invoked = <<listener>> \o @])

\* Shadow.emit(event, ...args) of the Shadow of class c.
emit(sh, c, event) == emitFrom(sh, c, event, sh[c].listeners[event], 1)

(***************************************************************************)
(* The heap the registry works on: h = [cache, roles, insts, faults, ovf].  *)
(* ovf is set when a segment needs more than MaxInst instances.            *)
(***************************************************************************)

NoRec == [instance |-> 0, mount |-> 0]

\* No run constructs more instances than this: an inject() call constructs at
\* most one instance of the class, and its _init at most one instance for the
\* side effect and one for the dependency field.
MaxInst == 3 * MaxOps

\* ComponentCache.get reading the map of the component name only: the record
\* of any parameters.
CacheGetAnyParams(h, name, paramsHash) ==
    IF \E key \in DOMAIN h.cache : key[1] = name
    THEN h.cache[CHOOSE key \in DOMAIN h.cache : key[1] = name]
    ELSE NoRec

\* ComponentCache.get / set / delete.
CacheGet(h, name, paramsHash) ==
    IF <<name, paramsHash>> \in DOMAIN h.cache THEN h.cache[<<name, paramsHash>>] ELSE NoRec
CacheSet(h, name, paramsHash, rec) ==
    [h EXCEPT !.cache = [key \in DOMAIN h.cache \cup {<<name, paramsHash>>} |->
                            IF key = <<name, paramsHash>> THEN rec ELSE h.cache[key]]]
CacheDelete(h, name, paramsHash) ==
    [h EXCEPT !.cache = [key \in DOMAIN h.cache \ {<<name, paramsHash>>} |-> h.cache[key]]]

\* The object a collection is resolved into: its entries (key -> instance),
\* whether it is frozen, and the index k of the key injectX is working on.
NewObj == [k |-> 0, map |-> <<>>, frozen |-> FALSE]

\* An object left as it is.
notFrozen(obj) == obj

\* Object.freeze(obj).
freeze(obj) == [obj EXCEPT !.frozen = TRUE]

\* The value of a dependency field: an instance, or the object of a collection.
InstanceValue(i) == [isMap |-> FALSE, inst |-> i, map |-> <<>>, frozen |-> FALSE]
MapValue(obj) == [isMap |-> TRUE, inst |-> 0, map |-> obj.map, frozen |-> obj.frozen]

\* An instance: its own properties defined by the registry (props: field ->
\* property descriptor), the state of its _init (stage, idx, wait, the object
\* coll of the collection being resolved, promise, err), the trace of what
\* happened to it (log), and the number of writes the application attempted
\* on its dependency fields (writes).
NewInstance(c, paramsHash, service) ==
    [ctr |-> c, paramsHash |-> paramsHash, service |-> service,
     props |-> <<>>, coll |-> NewObj, writes |-> 0,
     stage |-> "", idx |-> 0, wait |-> NoCall,
     log |-> <<>>, pending |-> {}, unhandled |-> {},
     promise |-> "pending", err |-> NoErr, published |-> FALSE, destroyed |-> FALSE]

\* Registery._construct: new Class(...params).  The registry reads the
\* parameters again only as the paramsHash captured by the then-callback.
_construct(h, c, params, service) ==
    IF Len(h.insts) >= MaxInst THEN [h EXCEPT !.ovf = TRUE]
    ELSE [h EXCEPT !.insts = Append(h.insts, NewInstance(c, hash(Arr(params)), service))]

\* The body of a lifecycle method of the component runs: it is recorded in the
\* instance's log with the arguments it received and with whether the cache
\* holds, while the method runs, the mount of this instance under its key.
MethodCall(h, i, field, args, mode) ==
    [h |-> [h EXCEPT !.insts[i].log =
                        Append(@, [ev |-> "call", name |-> field, args |-> args, inst |-> 0,
                                   mounting |-> CacheGet(h, ShadowOf(h.insts[i].ctr).name,
                                                         h.insts[i].paramsHash).mount = i]),
                     !.insts[i].pending = IF mode = "async" THEN @ \cup {field} ELSE @,
                     !.faults = IF mode = "sync" THEN @ ELSE @ + 1],
     thrown |-> mode = "throw", err |-> IF mode = "throw" THEN HookError ELSE NoErr]

\* Registery.resolve(instance, field, ...params): calls instance[field](...params)
\* when the field is a function.
resolve(h, i, field, params, mode) ==
    IF field \in MethodsOf(h.insts[i].ctr)
    THEN MethodCall(h, i, field, params, mode)
    ELSE [h |-> h, thrown |-> FALSE, err |-> NoErr]

\* Registery.invoke(instance, methodName, ...params): the rest parameter params
\* is handed to resolve as ONE argument (no spread).
invoke(h, i, methodName, params, mode) ==
    IF methodName \notin MethodsOf(h.insts[i].ctr)
    THEN [h |-> h, thrown |-> TRUE,
          err |-> NJSESError("Method not defined", NoErr, <<"invoke">>)]
    ELSE resolve(h, i, methodName, <<Arr(params)>>, mode)

\* Registery.invokeAll(instance, methodNames, ...params):
\* methodNames.map(name => this.invoke(instance, name, ...params)).  The map
\* stops at the first call that throws; the result is an array, so an await
\* of it waits for none of the promises in it.
RECURSIVE invokeFrom(_, _, _, _, _, _)
invokeFrom(h, o, i, methodNames, params, k) ==
    IF k > Len(methodNames) THEN [h |-> h, thrown |-> FALSE, err |-> NoErr]
    ELSE With(invoke(h, i, methodNames[k], params, o[k]),
              LAMBDA r : IF r.thrown THEN r
                         ELSE invokeFrom(r.h, o, i, methodNames, params, k + 1))

\* invokeAll going through the method names from the last to the first.
invokeAllReversed(h, o, i, methodNames, params) ==
    invokeFrom(h, o, i, [k \in DOMAIN methodNames |-> methodNames[Len(methodNames) + 1 - k]],
               params, 1)

invokeAll(h, o, i, methodNames, params) == invokeFrom(h, o, i, methodNames, params, 1)

(***************************************************************************)
(* Registery (src/src/main/registery.ts)                                   *)
(***************************************************************************)
\* destroyService has taken instance i out of the cache and has called its
\* destroy methods.
Destroyed(h, i) == [h EXCEPT !.insts[i].destroyed = TRUE]

\* Registery.getAssignees(role): Array.from(this._roles.get(role) || []), the
\* constructors that were added to the role.
getAssignees(h, role) ==
    IF role \in DOMAIN h.roles THEN {[t |-> "ctr", c |-> c, i |-> 0] : c \in h.roles[role]}
    ELSE {}

\* destroyService without line 168: the record stays in the cache.
destroyServiceNoDelete(h, o, service, reason, params) ==
    LET sr == ShadowRequire("ctr", service)
        registered == CacheGet(h, sr.shadow.name, hash(Arr(params)))
    IN IF ~sr.ok THEN [h |-> h, err |-> ShadowNotFound]
       ELSE IF registered.instance # 0
       THEN With(invokeAll(h, o, registered.instance,
                           getMethods(sr.shadow, "destroy"), <<Arr(<<Str(reason)>>)>>),
                 LAMBDA r : [h |-> Destroyed(r.h, registered.instance), err |-> r.err])
       ELSE [h |-> h, err |-> NoErr]

\* Registery.destroyService(service, reason, ...params) up to its await: the
\* record is deleted, then the destroy methods of the cached instance are
\* called through invokeAll(instance, methods, [reason]).
destroyService(h, o, service, reason, params) ==
    LET sr == ShadowRequire("ctr", service)
        paramsHash == hash(Arr(params))
        registered == CacheGet(h, sr.shadow.name, paramsHash)
        h1 == CacheDelete(h, sr.shadow.name, paramsHash)
    IN IF ~sr.ok THEN [h |-> h, err |-> ShadowNotFound]
       ELSE IF registered.instance # 0
       THEN With(invokeAll(h1, o, registered.instance,
                           getMethods(sr.shadow, "destroy"), <<Arr(<<Str(reason)>>)>>),
                 LAMBDA r : [h |-> Destroyed(r.h, registered.instance), err |-> r.err])
       ELSE [h |-> h1, err |-> NoErr]

\* The stage tag and the cause of a failure inside the try block of _init.
Fail(h, i, e) ==
    [h EXCEPT !.insts[i].promise = "rejected", !.insts[i].err = e, !.insts[i].wait = NoCall]
\* InitFail without the cause: the failure caught is not passed on.
InitFailNoCause(h, i, cause) ==
    Fail(h, i, NJSESError("Initialization failed", NoErr, <<"_init", h.insts[i].stage>>))

InitFail(h, i, cause) ==
    Fail(h, i, NJSESError("Initialization failed", cause, <<"_init", h.insts[i].stage>>))

\* hookStage with the configure and the init methods taken for each other.
hookStageSwapped(h, o, i, stage, type) ==
    LET h1 == [h EXCEPT !.insts[i].stage = stage]
        other == IF type = "configure" THEN "init"
                 ELSE IF type = "init" THEN "configure" ELSE type
    IN With(invokeAll(h1, o, i, getMethods(ShadowOf(h.insts[i].ctr), other), <<>>),
            LAMBDA r : IF r.thrown THEN InitFail(r.h, i, r.err)
                       ELSE [r.h EXCEPT !.insts[i].wait = Tick])

\* _init, stages 3 to 5: "stage = ...; await this.invokeAll(instance, methods)".
hookStage(h, o, i, stage, type) ==
    LET h1 == [h EXCEPT !.insts[i].stage = stage]
    IN With(invokeAll(h1, o, i, getMethods(ShadowOf(h.insts[i].ctr), type), <<>>),
            LAMBDA r : IF r.thrown THEN InitFail(r.h, i, r.err)
                       ELSE [r.h EXCEPT !.insts[i].wait = Tick])

RECURSIVE mount(_, _, _, _, _), mountTail(_, _, _, _, _, _), _init(_, _, _),
          sideEffectsFrom(_, _, _, _), injectionsFrom(_, _, _, _), injectX(_, _, _, _),
          injectXResume(_, _, _)

\* Registery.injectX(injectable, dependant) from its call to its first await
\* or its return.  A constructor, with or without parameters, is mounted.  For
\* a collection (of one key at least) a new object is made and injectX is
\* called for the Injectable of the first key; the call is suspended at
\* "obj[key] = await this.injectX(collectionItem, dependant)".  For an arrow function the code
\* reads the properties "dep" and "params" of the function object and calls
\* the latter with the dependant; the function itself is not called.
injectX(h, o, injectable, dependant) ==
    IF injectable.kind = "static"
    THEN mount(h, o, injectable.dep, injectable.params, FALSE)
    ELSE IF injectable.kind = "collection"
    THEN With(injectX([h EXCEPT !.insts[dependant].coll = NewObj], o,
                      injectable.items[1], dependant),
              LAMBDA r : [h |-> [r.h EXCEPT !.insts[dependant].coll.k = 1],
                          call |-> r.call])
    ELSE IF "params" \notin injectable.props
    THEN [h |-> h, call |-> Throw(NotAFunction, "computed")]
    ELSE [h |-> [h EXCEPT !.insts[dependant].log =
                    Append(@, [ev |-> "compute", name |-> injectable.field,
                               args |-> <<>>, inst |-> dependant])],
          call |-> Computing(injectable.dep, injectable.params)]

\* injectX resumed after "await injectable.params(dependant)": the service is
\* mounted with the awaited parameters.
injectXResume(h, o, call) == mount(h, o, call.src, call.params, FALSE)

\* _init, stage 2, from the k-th dependency field: the field is defined with
\* the awaited result of injectX.
injectionsFrom(h, o, i, k) ==
    LET inj == ShadowOf(h.insts[i].ctr).injections
        h1 == [h EXCEPT !.insts[i].stage = "injections"]
    IN IF k > Len(inj) THEN hookStage(h1, o, i, "configuration", "configure")
       ELSE With(injectX(h1, o, inj[k], i),
                 LAMBDA r : [r.h EXCEPT !.insts[i].idx = k, !.insts[i].wait = r.call])

\* _init, stage 1, from the k-th side effect: await this.mount(sideEffect, []).
sideEffectsFrom(h, o, i, k) ==
    LET se == ShadowOf(h.insts[i].ctr).sideEffects
        h1 == [h EXCEPT !.insts[i].stage = "side-effects"]
    IN IF k > Len(se) THEN injectionsFrom(h1, o, i, 1)
       ELSE LET h2 == [h1 EXCEPT !.insts[i].log =
                          Append(@, [ev |-> "sideEffect", name |-> se[k],
                                     args |-> <<>>, inst |-> 0])]
            IN With(mount(h2, o, se[k], NoParams, FALSE),
                    LAMBDA r : [r.h EXCEPT !.insts[i].idx = k, !.insts[i].wait = r.call])

\* Registery._init(instance) from its call to its first await.
_init(h, o, i) ==
    IF ~ShadowRequire("instance", h.insts[i].ctr).ok THEN Fail(h, i, ShadowNotFound)
    ELSE sideEffectsFrom(h, o, i, 1)

\* Registery.mount, lines 217-220: the constructor is added to its roles.
setRoles(h, shadow, source) ==
    [h EXCEPT !.roles =
        [r \in DOMAIN h.roles \cup shadow.roles |->
            (IF r \in DOMAIN h.roles THEN h.roles[r] ELSE {})
            \cup (IF r \in shadow.roles THEN {source} ELSE {})]]

\* mountTail without line 214: a mount in flight is never joined.
mountTailNoJoin(h, o, source, params, registered, via) ==
    LET shadow == ShadowOf(source)
    IN With(_construct(setRoles(h, shadow, source), source, params, TRUE),
            LAMBDA h2 :
               IF h2.ovf THEN [h |-> h2, call |-> NoCall]
               ELSE With(_init(h2, o, Len(h2.insts)),
                         LAMBDA h3 :
                            [h |-> CacheSet(h3, shadow.name, hash(Arr(params)),
                                            [mount |-> Len(h2.insts), instance |-> 0]),
                             call |-> Join(Len(h2.insts), via)]))

\* mountTail without line 226: the record {mount} is not published, the record
\* is written by the then-callback only.
mountTailNoPublish(h, o, source, params, registered, via) ==
    LET shadow == ShadowOf(source)
    IN IF registered.mount # 0
       THEN [h |-> h, call |-> Join(registered.mount, "shared")]
       ELSE With(_construct(setRoles(h, shadow, source), source, params, TRUE),
                 LAMBDA h2 :
                    IF h2.ovf THEN [h |-> h2, call |-> NoCall]
                    ELSE [h |-> _init(h2, o, Len(h2.insts)),
                          call |-> Join(Len(h2.insts), via)])

\* mountTail with line 214 returning the instance under construction instead
\* of the promise of its _init.
mountTailJoinValue(h, o, source, params, registered, via) ==
    LET shadow == ShadowOf(source)
    IN IF registered.mount # 0
       THEN [h |-> h, call |-> Value(registered.mount, "shared")]
       ELSE With(_construct(setRoles(h, shadow, source), source, params, TRUE),
                 LAMBDA h2 :
                    IF h2.ovf THEN [h |-> h2, call |-> NoCall]
                    ELSE With(_init(h2, o, Len(h2.insts)),
                              LAMBDA h3 :
                                 [h |-> CacheSet(h3, shadow.name, hash(Arr(params)),
                                                 [mount |-> Len(h2.insts), instance |-> 0]),
                                  call |-> Join(Len(h2.insts), via)]))

\* Registery.mount, lines 214-235: join the mount in flight, or set the roles,
\* construct, start _init, publish {mount} and register the then-callback.
mountTail(h, o, source, params, registered, via) ==
    LET shadow == ShadowOf(source)
        paramsHash == hash(Arr(params))
    IN IF registered.mount # 0
       THEN [h |-> h, call |-> Join(registered.mount, "shared")]
       ELSE With(_construct(setRoles(h, shadow, source), source, params, TRUE),
                 LAMBDA h2 :
                    IF h2.ovf THEN [h |-> h2, call |-> NoCall]
                    ELSE With(_init(h2, o, Len(h2.insts)),
                              LAMBDA h3 :
                                 [h |-> CacheSet(h3, shadow.name, paramsHash,
                                                 [mount |-> Len(h2.insts), instance |-> 0]),
                                  call |-> Join(Len(h2.insts), via)]))

\* mount without the test of line 188: an entity is mounted as a service is,
\* through the cache.
mountAllCached(h, o, source, params, forceDynamic) ==
    LET sr == ShadowRequire("ctr", source)
        registered == CacheGet(h, sr.shadow.name, hash(Arr(params)))
        instance == registered.instance
    IN IF ~sr.ok THEN [h |-> h, call |-> Throw(ShadowNotFound, "throw")]
       ELSE IF instance # 0 /\ h.insts[instance].ctr = source
       THEN [h |-> h, call |-> Value(instance, "fast")]
       ELSE IF instance # 0
       THEN IF CtrName(h.insts[instance].ctr) # CtrName(source)
            THEN [h |-> h,
                  call |-> Throw(NJSESError("Multiple services with name registered",
                                            NoErr, <<"mount">>), "throw")]
            ELSE With(destroyService(h, o, source, "re-mount", params),
                      LAMBDA d : [h |-> d.h,
                                  call |-> Destroying(source, params, registered, d.err)])
       ELSE mountTail(h, o, source, params, registered, "fresh")

\* mount without the test of lines 203-209: a cached instance of another
\* class is always taken for a stale instance of a re-declared class.
mountNoConflict(h, o, source, params, forceDynamic) ==
    LET sr == ShadowRequire("ctr", source)
        shadow == sr.shadow
        registered == CacheGet(h, shadow.name, hash(Arr(params)))
        instance == registered.instance
    IN IF ~sr.ok THEN [h |-> h, call |-> Throw(ShadowNotFound, "throw")]
       ELSE IF ~shadow.dynamic /\ ~forceDynamic
       THEN IF instance # 0 /\ h.insts[instance].ctr = source
            THEN [h |-> h, call |-> Value(instance, "fast")]
            ELSE IF instance # 0
            THEN With(destroyService(h, o, source, "re-mount", params),
                      LAMBDA d : [h |-> d.h,
                                  call |-> Destroying(source, params, registered, d.err)])
            ELSE mountTail(h, o, source, params, registered, "fresh")
       ELSE With(_construct(h, source, params, FALSE),
                 LAMBDA h1 :
                    IF h1.ovf THEN [h |-> h1, call |-> NoCall]
                    ELSE [h |-> _init(h1, o, Len(h1.insts)),
                          call |-> Join(Len(h1.insts), "entity")])

\* mount without the fast path of lines 195-197: a cached instance is always
\* taken for a stale one.
mountNoFastPath(h, o, source, params, forceDynamic) ==
    LET sr == ShadowRequire("ctr", source)
        shadow == sr.shadow
        registered == CacheGet(h, shadow.name, hash(Arr(params)))
        instance == registered.instance
    IN IF ~sr.ok THEN [h |-> h, call |-> Throw(ShadowNotFound, "throw")]
       ELSE IF ~shadow.dynamic /\ ~forceDynamic
       THEN IF instance # 0
            THEN With(destroyService(h, o, source, "re-mount", params),
                      LAMBDA d : [h |-> d.h,
                                  call |-> Destroying(source, params, registered, d.err)])
            ELSE mountTail(h, o, source, params, registered, "fresh")
       ELSE With(_construct(h, source, params, FALSE),
                 LAMBDA h1 :
                    IF h1.ovf THEN [h |-> h1, call |-> NoCall]
                    ELSE [h |-> _init(h1, o, Len(h1.insts)),
                          call |-> Join(Len(h1.insts), "entity")])

\* Registery.mount(source, params, forceDynamic) from its call to its first
\* await or its return.
mount(h, o, source, params, forceDynamic) ==
    LET sr == ShadowRequire("ctr", source)
        shadow == sr.shadow
        paramsHash == hash(Arr(params))
        registered == CacheGet(h, shadow.name, paramsHash)
        instance == registered.instance
    IN IF ~sr.ok THEN [h |-> h, call |-> Throw(ShadowNotFound, "throw")]
       ELSE IF ~shadow.dynamic /\ ~forceDynamic
       THEN IF instance # 0 /\ h.insts[instance].ctr = source
            THEN [h |-> h, call |-> Value(instance, "fast")]
            ELSE IF instance # 0
            THEN IF CtrName(h.insts[instance].ctr) # CtrName(source)
                 THEN [h |-> h,
                       call |-> Throw(NJSESError("Multiple services with name registered",
                                                 NoErr, <<"mount">>), "throw")]
                 ELSE With(destroyService(h, o, source, "re-mount", params),
                           LAMBDA d : [h |-> d.h,
                                       call |-> Destroying(source, params, registered, d.err)])
            ELSE mountTail(h, o, source, params, registered, "fresh")
       ELSE With(_construct(h, source, params, FALSE),
                 LAMBDA h1 :
                    IF h1.ovf THEN [h |-> h1, call |-> NoCall]
                    ELSE [h |-> _init(h1, o, Len(h1.insts)),
                          call |-> Join(Len(h1.insts), "entity")])

\* The call keeps the record it read before the await (the local "registered").
KeepRegistered(r, registered) == [h |-> r.h, call |-> [r.call EXCEPT !.reg = registered]]

\* Registery.mount resumed after "await this.destroyService(...)".
mountResume(h, o, call) ==
    IF call.err # NoErr
    THEN [h |-> h, call |-> [Throw(call.err, "remount") EXCEPT !.reg = call.reg]]
    ELSE With(mountTail(h, o, call.src, call.params, call.reg, "remount"),
              LAMBDA r : KeepRegistered(r, call.reg))

\* Registery.getServiceInstance(service, params): the cached instance (0 for
\* null), unless Shadow.require throws.
getServiceInstance(h, service, params) ==
    LET sr == ShadowRequire("ctr", service)
    IN [thrown |-> ~sr.ok,
        instance |-> IF sr.ok THEN CacheGet(h, sr.shadow.name, hash(Arr(params))).instance
                     ELSE 0]

\* mountEntity without line 251: any component is mounted as an entity.
mountEntityAny(h, o, entitiCtr, params) ==
    IF ~ShadowRequire("ctr", entitiCtr).ok
    THEN [h |-> h, call |-> Throw(ShadowNotFound, "throw")]
    ELSE mount(h, o, entitiCtr, params, TRUE)

\* Registery.mountEntity(entitiCtr, ...params).
mountEntity(h, o, entitiCtr, params) ==
    LET sr == ShadowRequire("ctr", entitiCtr)
    IN IF ~sr.ok THEN [h |-> h, call |-> Throw(ShadowNotFound, "throw")]
       ELSE IF ~sr.shadow.dynamic
       THEN [h |-> h, call |-> Throw(NJSESError("Not an entity.", NoErr, <<"createEntity">>),
                                     "throw")]
       ELSE mount(h, o, entitiCtr, params, TRUE)

\* Registery.inject(service, ...params).
inject(h, o, service, params) ==
    LET sr == ShadowRequire("ctr", service)
    IN IF ~sr.ok THEN [h |-> h, call |-> Throw(ShadowNotFound, "throw")]
       ELSE IF sr.shadow.dynamic
       THEN [h |-> h, call |-> Throw(NJSESError("Entities cannot be injected.",
                                                NoErr, <<"inject">>), "throw")]
       ELSE mount(h, o, service, params, FALSE)

\* defineProperty with writable: true and configurable: true.
definePropertyWritable(h, i, depField, value) ==
    [h EXCEPT !.insts[i].props =
        (depField :> [value |-> value, writable |-> TRUE, enumerable |-> TRUE,
                      configurable |-> TRUE]) @@ @,
              !.insts[i].log = Append(@, [ev |-> "bind", name |-> depField,
                                          args |-> <<>>, inst |-> value.inst])]

\* Object.defineProperty(instance, depField, {value, writable: false,
\* enumerable: true}): configurable defaults to false.
defineProperty(h, i, depField, value) ==
    [h EXCEPT !.insts[i].props =
        (depField :> [value |-> value, writable |-> FALSE, enumerable |-> TRUE,
                      configurable |-> FALSE]) @@ @,
              !.insts[i].log = Append(@, [ev |-> "bind", name |-> depField,
                                          args |-> <<>>, inst |-> value.inst])]

\* injectX for a collection resumed after "await this.injectX(collectionItem,
\* dependant)" with the instance of the key it was working on: the key is set
\* and the next key is taken; after the last key the object is frozen and
\* returned, and _init defines the dependency field with it.
collectResume(h, o, i, got) ==
    LET me == h.insts[i]
        injectable == ShadowOf(me.ctr).injections[me.idx]
        key == injectable.items[me.coll.k].key
        obj == [me.coll EXCEPT !.map = (key :> got.inst) @@ @]
    IN IF me.coll.k < Len(injectable.items)
       THEN With(injectX([h EXCEPT !.insts[i].coll = obj], o,
                         injectable.items[me.coll.k + 1], i),
                 LAMBDA r : [r.h EXCEPT !.insts[i].coll.k = me.coll.k + 1,
                                        !.insts[i].wait = r.call])
       ELSE injectionsFrom(defineProperty([h EXCEPT !.insts[i].coll = NewObj], i,
                                          injectable.field, MapValue(freeze(obj))),
                           o, i, me.idx + 1)

\* _init resumed in stage 2 with the awaited result of injectX.
injected(h, o, i, got) ==
    LET me == h.insts[i]
        injectable == ShadowOf(me.ctr).injections[me.idx]
    IN IF injectable.kind = "collection" THEN collectResume(h, o, i, got)
       ELSE injectionsFrom(defineProperty(h, i, injectable.field, InstanceValue(got.inst)),
                           o, i, me.idx + 1)

\* What the code of the application can do to a dependency field of an
\* instance it holds.  "instance[field] = value" changes a writable property
\* only, "delete instance[field]" removes a configurable property only (a
\* refused write is ignored, or throws in strict mode; either way the
\* property stays).
assign(h, i, field, value) ==
    IF h.insts[i].props[field].writable
    THEN [h EXCEPT !.insts[i].props[field].value = value] ELSE h
deleteProperty(h, i, field) ==
    IF h.insts[i].props[field].configurable
    THEN [h EXCEPT !.insts[i].props =
             [f \in DOMAIN @ \ {field} |-> @[f]]]
    ELSE h

\* "instance[field][key] = j" and "delete instance[field][key]" for the object
\* of a collection: a frozen object takes no new key, no new value for a key
\* and loses no key.
setEntry(h, i, field, key, j) ==
    LET v == h.insts[i].props[field].value
    IN IF v.isMap /\ ~v.frozen
       THEN [h EXCEPT !.insts[i].props[field].value.map = (key :> j) @@ @] ELSE h
deleteEntry(h, i, field, key) ==
    LET v == h.insts[i].props[field].value
    IN IF v.isMap /\ ~v.frozen
       THEN [h EXCEPT !.insts[i].props[field].value.map =
                [k \in DOMAIN @ \ {key} |-> @[k]]]
       ELSE h

\* How the promise a call or an _init waits for has settled, if it has.  The
\* then-callback of mount() was registered on the _init promise before any
\* caller could await it, so it has run when a caller sees the instance.
Outcome(h, call) ==
    IF call.k = "join"
    THEN LET it == h.insts[call.inst]
         IN IF it.promise = "resolved" /\ (it.published \/ ~it.service)
            THEN Value(call.inst, call.via)
            ELSE IF it.promise = "rejected" THEN Throw(it.err, call.via)
            ELSE call
    ELSE call

Settled(call) == call.k \in {"tick", "value", "throw"}

\* _initResume with the mount stage waiting for the promises its hooks
\* returned: _init does not return while one of them is pending.
_initResumeAwaitHooks(h, o, i, got) ==
    LET me == h.insts[i]
        h0 == [h EXCEPT !.insts[i].wait = NoCall]
    IN IF got.k = "throw" THEN InitFail(h0, i, got.err)
       ELSE IF me.stage = "side-effects" THEN sideEffectsFrom(h0, o, i, me.idx + 1)
       ELSE IF me.stage = "injections" THEN injected(h0, o, i, got)
       ELSE IF me.stage = "configuration" THEN hookStage(h0, o, i, "init-callbacks", "init")
       ELSE IF me.stage = "init-callbacks" THEN hookStage(h0, o, i, "mount-callbacks", "mount")
       ELSE IF me.pending # {} THEN h
       ELSE [h0 EXCEPT !.insts[i].promise = "resolved"]

\* _initResume with a failed side effect skipped: the loop of stage 1 goes on
\* with the next side effect.
_initResumeSkipSideEffect(h, o, i, got) ==
    LET me == h.insts[i]
        h0 == [h EXCEPT !.insts[i].wait = NoCall]
    IN IF me.stage = "side-effects" THEN sideEffectsFrom(h0, o, i, me.idx + 1)
       ELSE IF got.k = "throw" THEN InitFail(h0, i, got.err)
       ELSE IF me.stage = "injections" THEN injected(h0, o, i, got)
       ELSE IF me.stage = "configuration" THEN hookStage(h0, o, i, "init-callbacks", "init")
       ELSE IF me.stage = "init-callbacks" THEN hookStage(h0, o, i, "mount-callbacks", "mount")
       ELSE [h0 EXCEPT !.insts[i].promise = "resolved"]

\* Registery._init resumed after an await, with the outcome of the awaited
\* promise, up to its next await, its return or its throw.
_initResume(h, o, i, got) ==
    LET me == h.insts[i]
        h0 == [h EXCEPT !.insts[i].wait = NoCall]
    IN IF got.k = "throw" THEN InitFail(h0, i, got.err)
       ELSE IF me.stage = "side-effects" THEN sideEffectsFrom(h0, o, i, me.idx + 1)
       ELSE IF me.stage = "injections" THEN injected(h0, o, i, got)
       ELSE IF me.stage = "configuration" THEN hookStage(h0, o, i, "init-callbacks", "init")
       ELSE IF me.stage = "init-callbacks" THEN hookStage(h0, o, i, "mount-callbacks", "mount")
       ELSE [h0 EXCEPT !.insts[i].promise = "resolved"]

(***************************************************************************)
(* The state machine                                                       *)
(***************************************************************************)
Heap == [cache |-> cache, roles |-> roles, insts |-> insts, faults |-> faults, ovf |-> FALSE]

\* The number of writes the application attempted on dependency fields.
RECURSIVE WritesOf(_)
WritesOf(s) == IF s = <<>> THEN 0 ELSE Head(s).writes + WritesOf(Tail(s))

\* What is left of MaxOps.
Budget == MaxOps - (Len(calls) + destroys + faults + WritesOf(insts))

\* The heap a segment leaves behind becomes the next state.
Commit(h) ==
    /\ ~h.ovf
    /\ faults' = h.faults
    /\ cache' = h.cache
    /\ roles' = h.roles
    /\ insts' = h.insts

\* The inject() calls whose promise has not settled.
Unsettled == {c \in DOMAIN calls : ~Settled(Outcome(Heap, calls[c].p))}

\* The number of destroyService() calls and re-declarations so far.
Epoch == destroys + Cardinality(Reloaded \cap ctrShadow)

\* The parameter tuples the application passes for a class.
ParamsFor(c) == IF c \in {"B", "B2"} THEN {NoParams} ELSE {ParamsAB, ParamsBA}

\* The components the application injects and destroys by itself; "B" is
\* mounted as a side effect and a dependency of these.
AppServices == {"A", "A2"}

\* The reasons the application passes to destroyService.
Reasons == {"shutdown"}

\* The application has declared "A" and "B" and nothing is mounted.  The
\* method decorators (@Init, @Configure, ...) call Shadow.require(prototype),
\* so a class whose lifecycle methods are registered is a class whose
\* prototype chain resolves the $hadow property: all classes here are.
Init ==
    /\ shadows = [c \in Classes \ Reloaded |-> Described(c)]
    /\ trace = <<>>
    /\ ctrShadow = Classes \ Reloaded
    /\ protoShadow = Classes
    /\ cache = [key \in {} |-> NoRec]
    /\ roles = [r \in {} |-> {}]
    /\ insts = <<>>
    /\ calls = <<>>
    /\ destroys = 0
    /\ lastDestroyed = 0
    /\ faults = 0

\* Shadow.create(A2, init) and Shadow.create(B2, init): the modules of the
\* application are reloaded and re-declare both components.
Redeclare ==
    /\ Reloaded \cap ctrShadow = {}
    /\ ctrShadow' = ctrShadow \cup Reloaded
    /\ shadows' = [c \in DOMAIN shadows \cup Reloaded |->
                      IF c \in Reloaded THEN Described(c) ELSE shadows[c]]
    /\ lastDestroyed' = 0
    /\ UNCHANGED <<trace, protoShadow, cache, roles, insts, calls, destroys, faults>>

\* A call of the application is recorded with its operation (op), the promise
\* it returned (p) and with what was the case when it was issued: the earlier
\* calls not yet settled (before), the number of destroys and re-declarations
\* so far (epoch) and the live instance of its key that the step just before
\* destroyed (after, 0 if none).
CallRecord(op, service, params, p) ==
    [op |-> op, src |-> service, paramsHash |-> hash(Arr(params)), p |-> p,
     before |-> Unsettled, epoch |-> Epoch,
     after |-> IF /\ lastDestroyed # 0
                  /\ ShadowOf(insts[lastDestroyed].ctr).name = ShadowOf(service).name
                  /\ insts[lastDestroyed].paramsHash = hash(Arr(params))
               THEN lastDestroyed ELSE 0]

\* The application calls App.registery.inject(service, ...params).
InjectCall(service, params) ==
    /\ Budget > 0
    /\ \E o \in OraclesWithin(Budget - 1) :
       \E r \in {inject(Heap, o, service, params)} :
          /\ Commit(r.h)
          /\ calls' = Append(calls, CallRecord("inject", service, params, r.call))
    /\ lastDestroyed' = 0
    /\ UNCHANGED <<shadows, trace, ctrShadow, protoShadow, destroys>>

Inject ==
    \E service \in AppServices \cap ctrShadow :
    \E params \in ParamsFor(service) :
       InjectCall(service, params)

\* The application calls App.registery.destroyService(service, reason, ...params).
Destroy ==
    /\ Budget > 0
    /\ \E service \in AppServices \cap ctrShadow :
       \E params \in ParamsFor(service) :
       \E reason \in Reasons :
       \E o \in OraclesWithin(Budget - 1) :
       \E r \in {destroyService(Heap, o, service, reason, params)} :
          /\ Commit(r.h)
          /\ lastDestroyed' = CacheGet(Heap, ShadowOf(service).name, hash(Arr(params))).instance
    /\ destroys' = destroys + 1
    /\ UNCHANGED <<shadows, trace, ctrShadow, protoShadow, calls>>

\* An inject() call suspended in the re-mount path of mount continues after
\* the await of destroyService.
CallResume ==
    \E c \in DOMAIN calls :
    \E o \in OraclesWithin(Budget) :
       /\ calls[c].p.k = "destroying"
       /\ \E r \in {mountResume(Heap, o, calls[c].p)} :
             /\ Commit(r.h)
             /\ calls' = [calls EXCEPT ![c].p = r.call]
       /\ lastDestroyed' = 0
       /\ UNCHANGED <<shadows, trace, ctrShadow, protoShadow, destroys>>

\* A mount called by _init (side effect or dependency) continues after the
\* await of destroyService.
NestedResume ==
    \E i \in DOMAIN insts :
    \E o \in OraclesWithin(Budget) :
       /\ insts[i].promise = "pending"
       /\ insts[i].wait.k = "destroying"
       /\ \E r \in {mountResume(Heap, o, insts[i].wait)} :
             Commit([r.h EXCEPT !.insts[i].wait = r.call])
       /\ lastDestroyed' = 0
       /\ UNCHANGED <<shadows, trace, ctrShadow, protoShadow, calls, destroys>>

\* _init of an instance continues after the promise it awaits has settled.
InitResume ==
    \E i \in DOMAIN insts :
    \E o \in OraclesWithin(Budget) :
       /\ insts[i].promise = "pending"
       /\ Settled(Outcome(Heap, insts[i].wait))
       /\ \E h \in {_initResume(Heap, o, i, Outcome(Heap, insts[i].wait))} : Commit(h)
       /\ lastDestroyed' = 0
       /\ UNCHANGED <<shadows, trace, ctrShadow, protoShadow, calls, destroys>>

\* The callback of mount.then(...) in Registery.mount: the record of the key
\* becomes {instance}.
MountThen ==
    \E i \in DOMAIN insts :
       /\ insts[i].service
       /\ insts[i].promise = "resolved"
       /\ ~insts[i].published
       /\ Commit([CacheSet(Heap, ShadowOf(insts[i].ctr).name, insts[i].paramsHash,
                           [instance |-> i, mount |-> 0])
                    EXCEPT !.insts[i].published = TRUE])
       /\ lastDestroyed' = 0
       /\ UNCHANGED <<shadows, trace, ctrShadow, protoShadow, calls, destroys>>

\* The promise returned by an asynchronous lifecycle method settles.
HookSettle ==
    \E i \in DOMAIN insts :
    \E field \in insts[i].pending :
       /\ insts' = [insts EXCEPT ![i].pending = @ \ {field}]
       /\ lastDestroyed' = 0
       /\ UNCHANGED <<shadows, trace, ctrShadow, protoShadow, cache, roles, calls, destroys, faults>>

\* The promise returned by an asynchronous lifecycle method is rejected.  No
\* code of the registry has attached a handler to it.
HookReject ==
    \E i \in DOMAIN insts :
    \E field \in insts[i].pending :
       /\ insts' = [insts EXCEPT ![i].pending = @ \ {field},
                                 ![i].unhandled = @ \cup {field}]
       /\ lastDestroyed' = 0
       /\ UNCHANGED <<shadows, trace, ctrShadow, protoShadow, cache, roles, calls, destroys, faults>>

\* injectX called by _init for a computed dependency continues after the await
\* of the parameters.
ComputedResume ==
    \E i \in DOMAIN insts :
    \E o \in OraclesWithin(Budget) :
       /\ insts[i].promise = "pending"
       /\ insts[i].wait.k = "computing"
       /\ \E r \in {injectXResume(Heap, o, insts[i].wait)} :
             Commit([r.h EXCEPT !.insts[i].wait = r.call])
       /\ lastDestroyed' = 0
       /\ UNCHANGED <<shadows, trace, ctrShadow, protoShadow, calls, destroys>>

\* The keys the application writes in the object of a collection: the
\* declared ones and one that is not declared.
Keys == {"x", "y", "z"}

\* The application writes to a dependency field of an instance, or to the
\* object bound to it.
Write ==
    \E i \in DOMAIN insts :
    \E field \in DOMAIN insts[i].props :
    \E j \in DOMAIN insts :
    \E key \in Keys :
    \E h \in {assign(Heap, i, field, InstanceValue(j)), deleteProperty(Heap, i, field),
              setEntry(Heap, i, field, key, j), deleteEntry(Heap, i, field, key)} :
       /\ Budget > 0
       /\ Commit([h EXCEPT !.insts[i].writes = @ + 1])
       /\ lastDestroyed' = 0
       /\ UNCHANGED <<shadows, trace, ctrShadow, protoShadow, calls, destroys>>

Next ==
    \/ Redeclare
    \/ Inject
    \/ Destroy
    \/ CallResume
    \/ NestedResume
    \/ InitResume
    \/ MountThen
    \/ HookSettle
    \/ HookReject

Spec == Init /\ [][Next]_vars

\* The continuations of the registry are jobs of the microtask queue: once the
\* promise one of them waits for has settled, it runs.  Nothing makes the
\* application call the registry or makes a promise returned by a lifecycle
\* method settle.
Microtasks ==
    /\ WF_vars(CallResume)
    /\ WF_vars(NestedResume)
    /\ WF_vars(InitResume)
    /\ WF_vars(MountThen)

SpecFair == Spec /\ Microtasks

\* Every lifecycle method of the application terminates: a promise returned by
\* one is settled or rejected in the end.
HooksTerminate == WF_vars(HookSettle \/ HookReject)

SpecLive == Spec /\ Microtasks /\ HooksTerminate

(***************************************************************************)
(* An application whose services have a computed dependency field          *)
(***************************************************************************)
ComputedServices == {"C", "P"}

\* The application injects a service with a computed dependency field.
InjectComputed == \E service \in ComputedServices : InjectCall(service, NoParams)

NextComputed ==
    \/ InjectComputed
    \/ ComputedResume
    \/ InitResume
    \/ MountThen
    \/ HookSettle
    \/ HookReject

SpecComputed == Init /\ [][NextComputed]_vars

(***************************************************************************)
(* An application that creates entities next to its services               *)
(***************************************************************************)
\* The classes the application passes to mountEntity: the entity "E" and the
\* service "A".
Created == {"E", "A"}

\* The application calls App.registery.mountEntity(entitiCtr, ...params).
MountEntity ==
    /\ Budget > 0
    /\ \E entitiCtr \in Created :
       \E params \in ParamsFor(entitiCtr) :
       \E o \in OraclesWithin(Budget - 1) :
       \E r \in {mountEntity(Heap, o, entitiCtr, params)} :
          /\ Commit(r.h)
          /\ calls' = Append(calls, CallRecord("mountEntity", entitiCtr, params, r.call))
    /\ lastDestroyed' = 0
    /\ UNCHANGED <<shadows, trace, ctrShadow, protoShadow, destroys>>

NextEntity ==
    \/ MountEntity
    \/ Inject
    \/ InitResume
    \/ MountThen
    \/ HookSettle
    \/ HookReject

SpecEntity == Init /\ [][NextEntity]_vars

(***************************************************************************)
(* An application that injects one service with different parameters       *)
(***************************************************************************)
KeyParams == {ParamsAB, ParamsBA, ParamsOther}

\* The application calls App.registery.inject(A, ...params).
InjectKeys == \E params \in KeyParams : InjectCall("A", params)

NextKeys ==
    \/ InjectKeys
    \/ InitResume
    \/ MountThen
    \/ HookSettle
    \/ HookReject

SpecKeys == Init /\ [][NextKeys]_vars

(***************************************************************************)
(* The application injects, destroys and re-declares as in Spec, and       *)
(* writes to the dependency fields of the instances it holds.              *)
(***************************************************************************)
NextWrites ==
    \/ Next
    \/ Write

SpecWrites == Init /\ [][NextWrites]_vars

(***************************************************************************)
(* Two classes under one declared name: the application injects "A" and    *)
(* "X", both declared with the name "A".                                   *)
(***************************************************************************)
SameName == {"A", "X"}

\* The application calls App.registery.inject(service, ...params).
InjectNamed ==
    \E service \in SameName :
    \E params \in ParamsFor(service) :
       InjectCall(service, params)

NextNames ==
    \/ InjectNamed
    \/ InitResume
    \/ MountThen
    \/ HookSettle
    \/ HookReject

SpecNames == Init /\ [][NextNames]_vars

(***************************************************************************)
(* Declaration: the module of a class S is loaded and its decorators run:  *)
(* @Service({name: "S"}) declares it, @Role(r) and @Init add facts to its  *)
(* Shadow.  Nothing is declared at the start.                              *)
(***************************************************************************)
Declaring == "S"
AddedRoles == {"app", "dep"}
AddedMethods == {"start", "open"}

InitDeclare ==
    /\ shadows = [c \in {} |-> NewShadow([name |-> "", dynamic |-> FALSE])]
    /\ trace = <<>>
    /\ ctrShadow = {}
    /\ protoShadow = {}
    /\ cache = [key \in {} |-> NoRec]
    /\ roles = [r \in {} |-> {}]
    /\ insts = <<>>
    /\ calls = <<>>
    /\ destroys = 0
    /\ lastDestroyed = 0
    /\ faults = 0

\* A call of the declaring code and what it saw: for an adder the fact it
\* adds and whether the call threw.
Declared(c) == [ev |-> "declare", c |-> c, kind |-> "", fact |-> "", failed |-> FALSE]
Adder(c, kind, fact, failed) ==
    [ev |-> "adder", c |-> c, kind |-> kind, fact |-> fact, failed |-> failed]

\* Service(init)(service): Shadow.create(service, {...init, dynamic: false}).
ServiceCall ==
    /\ Len(trace) < MaxOps
    /\ shadows' = create(shadows, Declaring, [name |-> Declaring, dynamic |-> FALSE])
    /\ ctrShadow' = ctrShadow \cup {Declaring}
    /\ trace' = Append(trace, Declared(Declaring))
    /\ UNCHANGED <<protoShadow, cache, roles, insts, calls, destroys, lastDestroyed, faults>>

\* Role(...roles)(target): Shadow.require(target), then addRoles unless the
\* Shadow is that of an entity.
RoleCall ==
    \E r \in AddedRoles :
       /\ Len(trace) < MaxOps
       /\ IF ShadowGet("ctr", Declaring) /\ ~shadows[Declaring].dynamic
          THEN /\ shadows' = [shadows EXCEPT ![Declaring] = addRoles(@, {r})]
               /\ trace' = Append(trace, Adder(Declaring, "role", r, FALSE))
          ELSE /\ shadows' = shadows
               /\ trace' = Append(trace, Adder(Declaring, "role", r, TRUE))
       /\ UNCHANGED Registry

\* Init(target, propertyKey): Shadow.require(target).addMethod(FIELD_NAME.INIT,
\* propertyKey), the target being the prototype of the class.
InitCall ==
    \E method \in AddedMethods :
       /\ Len(trace) < MaxOps
       /\ IF ShadowGet("instance", Declaring)
          THEN /\ shadows' = [shadows EXCEPT ![Declaring] = addMethod(@, "init", method)]
               /\ trace' = Append(trace, Adder(Declaring, "init", method, FALSE))
          ELSE /\ shadows' = shadows
               /\ trace' = Append(trace, Adder(Declaring, "init", method, TRUE))
       /\ UNCHANGED Registry

NextDeclare ==
    \/ ServiceCall
    \/ RoleCall
    \/ InitCall

SpecDeclare == InitDeclare /\ [][NextDeclare]_vars

(***************************************************************************)
(* The earlier Shadow (src/src/shadow.ts): the descriptor is an object     *)
(* stored on the prototype of the class and changed in place by            *)
(* Shadow.update.  "Child" extends "Parent"; the decorators of both run.   *)
(* Here shadows maps a prototype to the object its own $hadow property     *)
(* refers to; two entries with the same id are the same object.            *)
(***************************************************************************)
Family == {"Parent", "Child"}
ParentOf(c) == IF c = "Child" THEN "Parent" ELSE ""

\* The call of a decorator on class c, with the fact it attaches.
Attach(c, kind, fact) == [ev |-> "update", c |-> c, kind |-> kind, fact |-> fact]

\* The mutators the decorators pass to Shadow.update: Service sets the name,
\* addRoles adds to the roles, addMethod adds to the methods.
mutate(shadow, call) ==
    IF call.kind = "name" THEN [shadow EXCEPT !.name = call.fact]
    ELSE IF call.kind = "role" THEN [shadow EXCEPT !.roles = @ \cup {call.fact}]
    ELSE [shadow EXCEPT !.methods = SetAdd(@, call.fact)]

\* The object Shadow.update makes when it finds none (id: randomId()).
ServiceShadow(id) == [id |-> id, name |-> "", roles |-> {}, methods |-> <<>>]
NoShadow == ServiceShadow("")

\* proto(service)[SHADOW_SYMBOL]: the own property of the prototype or, when
\* it has none, that of the prototype it inherits from.
RECURSIVE Lookup(_, _)
Lookup(sh, c) ==
    IF c \in DOMAIN sh THEN sh[c]
    ELSE IF ParentOf(c) # "" THEN Lookup(sh, ParentOf(c))
    ELSE NoShadow

\* Shadow.update(service, mutate): the object found (or a new one) is changed
\* in place and stored on the prototype of the service; whoever refers to
\* the same object sees the change.
update(sh, c, call) ==
    LET found == Lookup(sh, c)
        shadow == IF found = NoShadow THEN ServiceShadow(c) ELSE found
    IN [x \in DOMAIN sh \cup {c} |->
           IF x = c THEN mutate(shadow, call)
           ELSE IF sh[x].id = shadow.id THEN mutate(shadow, call) ELSE sh[x]]

InitDerive == InitDeclare

\* Service({name})(service): Shadow.update(service, shadow => { shadow.name =
\* init.name || shadow.name; ... }).
NameCall ==
    \E c \in Family :
       /\ Len(trace) < MaxOps
       /\ shadows' = update(shadows, c, Attach(c, "name", c))
       /\ trace' = Append(trace, Attach(c, "name", c))
       /\ UNCHANGED Registry

\* Role(...roles)(target): Shadow.addRoles(target, ...roles).
AddRolesCall ==
    \E c \in Family :
    \E r \in AddedRoles :
       /\ Len(trace) < MaxOps
       /\ shadows' = update(shadows, c, Attach(c, "role", r))
       /\ trace' = Append(trace, Attach(c, "role", r))
       /\ UNCHANGED Registry

\* Init(target, propertyKey): Shadow.addMethod(target, FIELD_NAME.INIT,
\* propertyKey).
AddMethodCall ==
    \E c \in Family :
    \E method \in AddedMethods :
       /\ Len(trace) < MaxOps
       /\ shadows' = update(shadows, c, Attach(c, "init", method))
       /\ trace' = Append(trace, Attach(c, "init", method))
       /\ UNCHANGED Registry

NextDerive ==
    \/ NameCall
    \/ AddRolesCall
    \/ AddMethodCall

SpecDerive == InitDerive /\ [][NextDerive]_vars

(***************************************************************************)
(* A service without side effects and dependencies: the application        *)
(* injects "H", whose hooks are the first thing its _init does.            *)
(***************************************************************************)
\* The application calls App.registery.inject(H, ...params).
InjectHooked == \E params \in ParamsFor("H") : InjectCall("H", params)

NextHooks ==
    \/ InjectHooked
    \/ InitResume
    \/ MountThen
    \/ HookSettle
    \/ HookReject

SpecHooks == Init /\ [][NextHooks]_vars

(***************************************************************************)
(* Declaration by the class decorator alone: @Service stores the Shadow on  *)
(* the constructor (Shadow.create), nothing stores it on the prototype.     *)
(***************************************************************************)
\* The classes the application declares with @Service.
Decorated == {"A", "B", "G", "H"}

\* Nothing is declared and nothing is mounted.
InitRequire ==
    /\ shadows = [c \in {} |-> NewShadow([name |-> "", dynamic |-> FALSE])]
    /\ trace = <<>>
    /\ ctrShadow = {}
    /\ protoShadow = {}
    /\ cache = [key \in {} |-> NoRec]
    /\ roles = [r \in {} |-> {}]
    /\ insts = <<>>
    /\ calls = <<>>
    /\ destroys = 0
    /\ lastDestroyed = 0
    /\ faults = 0

\* Service(init)(service): Shadow.create(service, init) sets service.$hadow.
ServiceDecorator ==
    \E c \in Decorated \ ctrShadow :
       /\ ctrShadow' = ctrShadow \cup {c}
       /\ shadows' = [x \in DOMAIN shadows \cup {c} |->
                         IF x = c THEN Described(c) ELSE shadows[x]]
       /\ lastDestroyed' = 0
       /\ UNCHANGED <<trace, protoShadow, cache, roles, insts, calls, destroys, faults>>

\* The application calls App.registery.inject(service, ...params) for a
\* declared service.
InjectDecorated ==
    \E service \in Decorated \cap ctrShadow :
    \E params \in ParamsFor(service) :
       InjectCall(service, params)

NextRequire ==
    \/ ServiceDecorator
    \/ InjectDecorated

SpecRequire == InitRequire /\ [][NextRequire]_vars

(***************************************************************************)
(* Events: the application registers listeners on the Shadow of "A" and    *)
(* emits the event.                                                        *)
(***************************************************************************)
\* Shadow.require(A).on(event, listener).
OnCall ==
    \E event \in Events :
    \E listener \in Handlers :
       /\ shadows' = [shadows EXCEPT !["A"] = on(@, event, listener)]
       /\ UNCHANGED <<trace, Registry>>

\* Shadow.require(A).emit(event): the call is recorded with the listeners
\* registered when it was made.
EmitCall ==
    \E event \in Events :
    \E r \in {emit(shadows, "A", event)} :
       /\ Len(trace) < MaxOps
       /\ shadows' = r.sh
       /\ trace' = Append(trace, [ev |-> "emit", event |-> event,
                                  snapshot |-> shadows["A"].listeners[event],
                                  invoked |-> r.invoked, threw |-> r.threw])
       /\ UNCHANGED Registry

NextEvents ==
    \/ OnCall
    \/ EmitCall

SpecEvents == Init /\ [][NextEvents]_vars

(***************************************************************************)
(* The application with a collection: G declares the dependency field      *)
(* "deps" as the collection {x: B, y: [B, {a: 1, b: 2}]}.  The application   *)
(* injects G and writes to the fields of the instances it holds.           *)
(***************************************************************************)
\* The application calls App.registery.inject(G).
InjectCollection == InjectCall("G", NoParams)

NextCollection ==
    \/ InjectCollection
    \/ InitResume
    \/ MountThen
    \/ HookSettle
    \/ HookReject
    \/ Write

SpecCollection == Init /\ [][NextCollection]_vars

(***************************************************************************)
(* What the application observes of its inject() calls                     *)
(***************************************************************************)
\* The cache key of the c-th inject() call.
KeyOf(c) == <<ShadowOf(calls[c].src).name, calls[c].paramsHash>>

\* How the promise of the c-th inject() call has settled, if it has.
Result(c) == Outcome(Heap, calls[c].p)
Resolved(c) == Result(c).k = "value"
Rejected(c) == Result(c).k = "throw"

\* The calls of lifecycle method "field" recorded on instance i.
CallsOf(i, field) ==
    {k \in DOMAIN insts[i].log :
        insts[i].log[k].ev = "call" /\ insts[i].log[k].name = field}

\* Every method of the given type was called exactly once on instance i.
EachCalledOnce(i, type) ==
    LET ms == getMethods(ShadowOf(insts[i].ctr), type)
    IN \A k \in DOMAIN ms : Cardinality(CallsOf(i, ms[k])) = 1

\* Call c1 found its key fresh (no record, and no earlier call on the key still
\* in flight) and call c2, for the same descriptor and fingerprint, was issued
\* before c1 settled, with no destroy and no re-declaration in between.
Concurrent(c1, c2) ==
    /\ c1 < c2
    /\ calls[c1].src = calls[c2].src
    /\ calls[c1].paramsHash = calls[c2].paramsHash
    /\ calls[c1].p.via = "fresh"
    /\ \A c0 \in calls[c1].before : KeyOf(c0) # KeyOf(c1)
    /\ c1 \in calls[c2].before
    /\ calls[c1].epoch = calls[c2].epoch

FailedStage(i) ==
    IF insts[i].promise = "rejected" /\ Len(insts[i].err) > 0 /\ Len(insts[i].err[1].tags) = 2
    THEN insts[i].err[1].tags[2] ELSE ""

\* The call shares or owns the mount of an instance (it did not take the fast
\* path and did not throw before a mount existed).
Mounts(c) == calls[c].p.k = "join"

\* The call constructed a new instance.
Constructs(c) == Mounts(c) /\ calls[c].p.via \in {"fresh", "remount"}

\* C2: after a mount of a Singleton key failed in one of the stages
\* side-effects, injections, configuration or init-callbacks, and a caller has
\* seen the failure, a later inject on the key does not receive that failure:
\* it does not share the failed mount.
C2_FailedKeyCleared ==
    \A c1, c2 \in DOMAIN calls :
        ( /\ c1 < c2
          /\ KeyOf(c1) = KeyOf(c2)
          /\ Mounts(c1)
          /\ c1 \notin calls[c2].before
          /\ FailedStage(calls[c1].p.inst) \in
                {"side-effects", "injections", "configuration", "init-callbacks"} )
        => ~(Mounts(c2) /\ calls[c2].p.inst = calls[c1].p.inst)

PendingOf(i, types) ==
    {f \in insts[i].pending :
        \E type \in types :
            LET ms == getMethods(ShadowOf(insts[i].ctr), type)
            IN \E k \in DOMAIN ms : ms[k] = f}

TypeRank == <<"configure", "init", "mount", "destroy">>
Rank(i, e) ==
    IF e.ev = "sideEffect" THEN 1
    ELSE IF e.ev \in {"bind", "compute"} THEN 2
    ELSE LET ms == ShadowOf(insts[i].ctr).methods
         IN 2 + CHOOSE t \in DOMAIN TypeRank :
                    \E k \in DOMAIN ms[TypeRank[t]] : ms[TypeRank[t]][k] = e.name

StageEvents(i, r) == {k \in DOMAIN insts[i].log : Rank(i, insts[i].log[k]) = r}

\* The number of log entries stage r makes when it runs completely.
StageSize(i, r) ==
    LET shadow == ShadowOf(insts[i].ctr)
    IN IF r = 1 THEN Len(shadow.sideEffects)
       ELSE IF r = 2 THEN Len(shadow.injections)
       ELSE Len(shadow.methods[TypeRank[r - 2]])

InstKey(i) == <<ShadowOf(insts[i].ctr).name, insts[i].paramsHash>>

\* Instance i of a service is live: constructed, not failed, not destroyed.
Live(i) == insts[i].service /\ insts[i].promise # "rejected" /\ ~insts[i].destroyed

InstancesOf(c) == {i \in DOMAIN insts : insts[i].ctr = c}

\* The instances that were bound to dependency fields of instance i.
BoundTo(i) ==
    {insts[i].log[k].inst : k \in {l \in DOMAIN insts[i].log : insts[i].log[l].ev = "bind"}}

\* Two concurrent inject(A) calls on a fresh key have both resolved and
\* nothing was re-declared.
BothResolved(c1, c2) ==
    /\ Concurrent(c1, c2)
    /\ Resolved(c1) /\ Resolved(c2)
    /\ Reloaded \cap ctrShadow = {}

SharedFailure(c1, c2) ==
    /\ Concurrent(c1, c2)
    /\ FailedStage(calls[c1].p.inst) \in
          {"side-effects", "injections", "configuration", "init-callbacks"}

MountedInstance(x) ==
    /\ x.t = "inst"
    /\ \E key \in DOMAIN cache : cache[key].instance = x.i /\ ~insts[x.i].destroyed

\* C15: getAssignees(role) returns only currently mounted instances of the
\* descriptors carrying the role.
C15_AssigneesMounted ==
    \A role \in DOMAIN roles : \A x \in getAssignees(Heap, role) : MountedInstance(x)

\* The last inject() call issued, in the state after the step that issued it.
LastCall == calls[Len(calls)]

FailedHooks(i) ==
    {f \in insts[i].unhandled :
        \E type \in {"configure", "init"} :
            LET ms == getMethods(ShadowOf(insts[i].ctr), type)
            IN \E k \in DOMAIN ms : ms[k] = f}

FieldEvents(i, ev, field) ==
    {k \in DOMAIN insts[i].log :
        insts[i].log[k].ev = ev /\ insts[i].log[k].name = field}

\* Instance i has a computed dependency field that was resolved as described:
\* the computation was called with i, and the field was then bound to an
\* instance of the target constructed with the parameters it returned.
ComputedBound(i, injectable) ==
    \E c \in FieldEvents(i, "compute", injectable.field) :
    \E b \in FieldEvents(i, "bind", injectable.field) :
        /\ c < b
        /\ insts[i].log[c].inst = i
        /\ insts[i].log[b].inst \in DOMAIN insts
        /\ insts[insts[i].log[b].inst].ctr = injectable.dep
        /\ insts[insts[i].log[b].inst].paramsHash = hash(Arr(injectable.params))

\* C16: resolving a computed dependency calls the argument computation with
\* the requesting instance and then mounts the target with the arguments it
\* returned, the field being bound to the instance mounted with them: an
\* instance that is past the injections stage has its computed fields
\* resolved in this way, and an instance fails in the injections stage only
\* when a mount of the target has failed.
C16_ComputedDependency ==
    \A i \in DOMAIN insts :
        LET inj == ShadowOf(insts[i].ctr).injections
        IN \A k \in DOMAIN inj :
              inj[k].kind = "computed" =>
                 /\ insts[i].stage \in {"configuration", "init-callbacks", "mount-callbacks"}
                       => ComputedBound(i, inj[k])
                 /\ FailedStage(i) = "injections"
                       => \E j \in DOMAIN insts :
                             /\ insts[j].ctr = inj[k].dep
                             /\ insts[j].promise = "rejected"

\* The c-th call is a call of mountEntity (the create operation).
Creates(c) == calls[c].op = "mountEntity"

\* The c-th call constructed an instance of its class outside the cache, and
\* no other call received it.
Fresh(c) ==
    /\ calls[c].p.k = "join"
    /\ calls[c].p.via = "entity"
    /\ insts[calls[c].p.inst].ctr = calls[c].src
    /\ ~insts[calls[c].p.inst].service
    /\ \A c2 \in DOMAIN calls \ {c} : calls[c2].p.inst # calls[c].p.inst

\* The _init of instance i has run through its stages and has called every
\* init and mount hook once.
RanPipeline(i) ==
    /\ insts[i].stage = "mount-callbacks"
    /\ EachCalledOnce(i, "init")
    /\ EachCalledOnce(i, "mount")

Entities == {c \in Classes : ShadowOf(c).dynamic}

\* A record of the cache is kept under the name of an entity, or holds an
\* instance, or the mount of an instance, that was constructed as an entity.
EntityCached ==
    \E key \in DOMAIN cache :
        \/ \E c \in Entities : key[1] = ShadowOf(c).name
        \/ \E i \in DOMAIN insts :
              /\ ~insts[i].service
              /\ i \in {cache[key].instance, cache[key].mount}

\* The step is a mountEntity call that mounted a Transient descriptor.
TransientMount ==
    /\ Len(calls') = Len(calls) + 1
    /\ calls'[Len(calls')].op = "mountEntity"
    /\ calls'[Len(calls')].p.k = "join"

\* C18: mounting a Transient descriptor D never touches the cache: the call
\* leaves every record of the cache as it was (no record is written and no
\* in-flight handle is published, for D or for any other key), and at no time
\* later does the cache hold a record under the name of D or a record of an
\* instance constructed in this way.
C18_TransientUncached ==
    [][ /\ TransientMount => cache' = cache
        /\ ~EntityCached' ]_vars

\* A Transient mount has resolved while the cache holds a Singleton instance.
C18_Witness ==
    /\ \E c \in DOMAIN calls : Creates(c) /\ calls[c].src \in Entities /\ Resolved(c)
    /\ \E key \in DOMAIN cache : cache[key].instance # 0

\* The parameter tuples of KeyParams with the fingerprint of the c-th call.
ParamsOf(c) == {params \in KeyParams : hash(Arr(params)) = calls[c].paramsHash}

RecordState(c, key) ==
    IF key \notin DOMAIN c THEN "UNMOUNTED"
    ELSE IF c[key].instance # 0 THEN "MOUNTED"
    ELSE IF c[key].mount # 0 THEN "MOUNTING"
    ELSE "UNMOUNTED"

\* The transitions of a record named by the lifecycle.
Lifecycle ==
    {<<"UNMOUNTED", "MOUNTING">>, <<"MOUNTING", "MOUNTED">>,
     <<"MOUNTED", "UNMOUNTED">>, <<"MOUNTING", "UNMOUNTED">>}

\* The constructions in flight for a key: the instances constructed for it
\* whose _init has not settled.
InFlight(key) ==
    {i \in DOMAIN insts :
        /\ insts[i].service
        /\ <<ShadowOf(insts[i].ctr).name, insts[i].paramsHash>> = key
        /\ insts[i].promise = "pending"}

\* C21: a record changes its state only along UNMOUNTED -> MOUNTING,
\* MOUNTING -> MOUNTED, MOUNTED -> UNMOUNTED and MOUNTING -> UNMOUNTED, the
\* last one only when the construction has failed; and a MOUNTING record is
\* the record of exactly one construction in flight, the one whose handle it
\* holds.
C21_RecordLifecycle ==
    [][ \A key \in DOMAIN cache \cup DOMAIN cache' :
          LET s == RecordState(cache, key)
              t == RecordState(cache', key)
          IN /\ s # t => <<s, t>> \in Lifecycle
             /\ (s = "MOUNTING" /\ t = "UNMOUNTED")
                   => insts'[cache[key].mount].promise = "rejected"
             /\ t = "MOUNTING" => InFlight(key)' = {cache'[key].mount} ]_vars

\* The c-th call waits for a construction whose earlier stages have succeeded
\* and whose mount hooks were dispatched, one of them having returned a
\* promise that is still pending.
AtMountHooks(c) ==
    /\ c \in DOMAIN calls
    /\ Mounts(c)
    /\ insts[calls[c].p.inst].stage = "mount-callbacks"
    /\ insts[calls[c].p.inst].promise = "pending"
    /\ PendingOf(calls[c].p.inst, {"mount"}) # {}

CollectionsOf(c) ==
    LET inj == ShadowOf(c).injections
    IN {n \in DOMAIN inj : inj[n].kind = "collection"}

\* The object bound to a field holds the declared keys and nothing else, each
\* with a resolved instance of the service its key names; it is frozen.
CompleteMapping(v, items) ==
    /\ v.isMap
    /\ v.frozen
    /\ DOMAIN v.map = {items[n].key : n \in DOMAIN items}
    /\ \A n \in DOMAIN items :
          LET j == v.map[items[n].key]
          IN /\ j \in DOMAIN insts
             /\ insts[j].ctr = items[n].dep
             /\ insts[j].paramsHash = hash(Arr(items[n].params))
             /\ insts[j].promise = "resolved"

\* Every bound collection field holds a complete mapping; a pipeline that
\* went past the injection stage has its collection fields bound, and one
\* that failed in the injection stage has not bound the field it worked on.
CollectionsBound ==
    \A i \in DOMAIN insts :
    \A n \in CollectionsOf(insts[i].ctr) :
       LET injectable == ShadowOf(insts[i].ctr).injections[n]
           isBound == injectable.field \in DOMAIN insts[i].props
       IN /\ isBound => CompleteMapping(insts[i].props[injectable.field].value,
                                        injectable.items)
          /\ (insts[i].stage \in {"configuration", "init-callbacks", "mount-callbacks"}
                \/ insts[i].promise = "resolved") => isBound
          /\ (insts[i].promise = "rejected" /\ insts[i].stage = "injections"
                /\ insts[i].idx = n) => ~isBound

FailedInjection ==
    {i \in DOMAIN insts : insts[i].promise = "rejected" /\ insts[i].stage = "injections"}

\* The dependency field instance i was resolving when its _init stopped.
FieldAt(i) == ShadowOf(insts[i].ctr).injections[insts[i].idx]

\* The tags found in the frames of a failure.
TagsOf(e) == UNION {{e[n].tags[t] : t \in DOMAIN e[n].tags} : n \in DOMAIN e}

\* The services the resolution of a dependency field of instance i was
\* mounting when it stopped.
Resolving(i) ==
    LET injectable == FieldAt(i)
    IN IF injectable.kind = "collection"
       THEN {j \in DOMAIN insts :
                /\ insts[j].ctr = injectable.items[insts[i].coll.k].dep
                /\ insts[j].paramsHash = hash(Arr(injectable.items[insts[i].coll.k].params))}
       ELSE {j \in DOMAIN insts : insts[j].ctr = injectable.dep}

Dispatches == {n \in DOMAIN trace : trace[n].ev = "emit"}

\* q is the beginning of s.
IsPrefix(q, s) == Len(q) <= Len(s) /\ \A n \in DOMAIN q : q[n] = s[n]

\* C25 as stated: emit calls the listeners registered when it was called, each
\* exactly once, and none that was added during the dispatch.
C25_SnapshotDispatch ==
    \A n \in Dispatches : trace[n].invoked = trace[n].snapshot

\* C25, amended: emit calls listeners of the snapshot only, in the order of
\* registration and each once at most; a listener added during the dispatch
\* is not called in it; every listener of the snapshot is called exactly once
\* unless one of them throws: then emit throws and the listeners after that
\* one are not called.
C25_SnapshotUntilThrow ==
    \A n \in Dispatches :
       LET d == trace[n]
       IN /\ IsPrefix(d.invoked, d.snapshot)
          /\ ~d.threw => d.invoked = d.snapshot
          /\ d.threw => /\ d.invoked # <<>>
                        /\ Does(d.invoked[Len(d.invoked)]) = "throw"

\* A listener has registered another one during a dispatch; that one was not
\* called in it and is registered now.
C25_Witness ==
    \E n \in Dispatches :
       /\ \E k \in DOMAIN trace[n].invoked : trace[n].invoked[k] = "adder"
       /\ \A k \in DOMAIN trace[n].snapshot : trace[n].snapshot[k] # "late"
       /\ \E k \in DOMAIN shadows["A"].listeners["changed"] :
             shadows["A"].listeners["changed"][k] = "late"

\* The step is a destroyService() call of the application for a key that has
\* no live instance in the cache.
DestroysAbsent == destroys' = destroys + 1 /\ lastDestroyed' = 0

\* C26: destroy on a key that has no live instance is a no-op: no destroy hook
\* is invoked and every record of the cache, an in-flight (MOUNTING) record
\* of that key included, is left as it was.
C26_DestroyAbsentNoOp ==
    [][ DestroysAbsent => (cache' = cache /\ insts' = insts) ]_vars

\* The dependency fields declared for instance i.
FieldsOf(i) ==
    LET inj == ShadowOf(insts[i].ctr).injections
    IN {inj[n].field : n \in DOMAIN inj}

\* The pipeline of instance i is past its injection stage.
PastInjections(i) ==
    \/ insts[i].stage \in {"configuration", "init-callbacks", "mount-callbacks"}
    \/ insts[i].promise = "resolved"

FailedSideEffect ==
    {i \in DOMAIN insts : insts[i].promise = "rejected" /\ insts[i].stage = "side-effects"}

\* The _init of instance i waits for the mount of a side effect, and that
\* mount has failed.
AwaitsFailedSideEffect(i) ==
    /\ insts[i].promise = "pending"
    /\ insts[i].stage = "side-effects"
    /\ Outcome(Heap, insts[i].wait).k = "throw"

\* The lifecycle methods of instance i that were called.
HooksCalled(i) == {k \in DOMAIN insts[i].log : insts[i].log[k].ev = "call"}

NameConflict == NJSESError("Multiple services with name registered", NoErr, <<"mount">>)

\* The step is an inject() call for a key whose cached instance is of another
\* class, with another class name.
InjectsOtherClass ==
    /\ Len(calls') = Len(calls) + 1
    /\ LET c == calls'[Len(calls')]
           registered == CacheGet(Heap, ShadowOf(c.src).name, c.paramsHash)
       IN /\ registered.instance # 0
          /\ insts[registered.instance].ctr # c.src
          /\ CtrName(insts[registered.instance].ctr) # CtrName(c.src)

HasFact(shadow, call) ==
    IF call.kind = "role" THEN call.fact \in shadow.roles
    ELSE \E k \in DOMAIN shadow.methods[call.kind] : shadow.methods[call.kind][k] = call.fact

\* C30: the adders may be called in any order relative to declare: no adder
\* call fails, and once the class is declared its descriptor holds every fact
\* that was added, whether the adder ran before or after the declaration.
C30_AddersAnyOrder ==
    \A n \in DOMAIN trace :
       trace[n].ev = "adder" =>
          /\ ~trace[n].failed
          /\ trace[n].c \in DOMAIN shadows => HasFact(shadows[trace[n].c], trace[n])

\* The methods of the given type that were called on instance i, in the order
\* of the calls.
CalledOfType(i, type) ==
    LET ms == getMethods(ShadowOf(insts[i].ctr), type)
        IsOfType(e) == e.ev = "call" /\ \E k \in DOMAIN ms : ms[k] = e.name
        entries == SelectSeq(insts[i].log, IsOfType)
    IN [k \in DOMAIN entries |-> entries[k].name]

\* The stage of _init that runs the methods of the given type.
StageOfType(type) == IF type = "configure" THEN "configuration" ELSE "init-callbacks"

\* The pipeline of instance i has completed the stage of the given type.
PastStage(i, type) ==
    \/ insts[i].promise = "resolved"
    \/ insts[i].stage = "mount-callbacks"
    \/ type = "configure" /\ insts[i].stage = "init-callbacks"

AttachesToChild ==
    /\ Len(trace') = Len(trace) + 1
    /\ trace'[Len(trace')].c = "Child"

\* C32: the descriptor of a derived class is distinct from that of its base
\* class: attaching metadata (hooks, roles, name) to the derived class leaves
\* the descriptor of the base class as it was.
C32_DerivedDistinct ==
    [][ AttachesToChild => Lookup(shadows', "Parent") = Lookup(shadows, "Parent") ]_vars

\* The calls of the configure, init and mount hooks recorded on instance i.
PipelineCalls(i) ==
    {k \in DOMAIN insts[i].log :
        /\ insts[i].log[k].ev = "call"
        /\ \E type \in {"configure", "init", "mount"} :
              LET ms == getMethods(ShadowOf(insts[i].ctr), type)
              IN \E n \in DOMAIN ms : ms[n] = insts[i].log[k].name}

DestroyedWhileMounting(key) ==
    /\ key \notin DOMAIN cache
    /\ \E i \in DOMAIN insts :
          /\ insts[i].service
          /\ InstKey(i) = key
          /\ insts[i].promise # "rejected"
          /\ ~insts[i].published

C36_RequireFindsShadow ==
    /\ \A c \in ctrShadow : ShadowRequire("ctr", c).ok
    /\ \A i \in DOMAIN insts :
          insts[i].ctr \in ctrShadow =>
             /\ ShadowRequire("instance", insts[i].ctr).ok
             /\ insts[i].err # ShadowNotFound

\* The keys of the services the application injects or mounts as side effects.
ServiceKeys ==
    UNION {{<<ShadowOf(c).name, hash(Arr(params))>> : params \in ParamsFor(c)} : c \in {"A", "B"}}

\* The record of the key is MOUNTING.
Mounting(key) == key \in DOMAIN cache /\ cache[key].mount # 0

\* Every inject() call settles in the end.
EveryInjectSettles ==
    \A c \in 1..MaxOps : (c \in DOMAIN calls) ~> (c \in DOMAIN calls /\ c \notin Unsettled)

\* No record stays MOUNTING forever.
NoneMountingForever == \A key \in ServiceKeys : []<>(~Mounting(key))

\* C37: for a finite acyclic graph of side effects and dependencies whose
\* hooks all terminate, every inject call eventually settles (resolves or
\* rejects) and no record stays MOUNTING forever.
C37_Liveness == EveryInjectSettles /\ NoneMountingForever

====
